---- MODULE Spec2Model ----
(***************************************************************************)
(* Model of src/App.tsx: the AppState lifecycle driven by                  *)
(* handleVideoSelection, the frame sampler extractFramesFromVideo and the  *)
(* two reset buttons.  One action per event handler or promise             *)
(* continuation; each action runs the handler up to its next await, as the *)
(* single-threaded event loop does.                                        *)
(***************************************************************************)
EXTENDS Naturals, Sequences, FiniteSets, TLC

VARIABLES
    state,          \* AppState: status, progress, result, error (App.tsx:10-15)
    loadingMessage, \* useState at App.tsx:17
    run,            \* locals of the handleVideoSelection invocation in progress
    video,          \* the video element and closure of the current sampler call
    stale,          \* a sampler loop of an earlier run that is still being served
    calls,          \* per submit: invocations of the sampler and of the provider
    pendingRuns,    \* handleVideoSelection invocations that have not settled
    timers,         \* the live setInterval timers, each with its closure's i
    clipboard,      \* the text last written by navigator.clipboard.writeText
    alerts,         \* the alert() dialogs shown
    downloads,      \* the files offered for download by a.click()
    exports,        \* invocations of copyAllPrompts and downloadJson
    native,         \* videoWidth and videoHeight of a loaded element
    canvas          \* the width and height given to the offscreen canvas

vars ==
    <<state, loadingMessage, run, video, stale, calls, pendingRuns, timers,
      clipboard, alerts, downloads, exports, native, canvas>>

\* What the analysis pipeline never touches.
aside == <<clipboard, alerts, downloads, exports, native, canvas>>

-----------------------------------------------------------------------------
(* Bounds of the model *)

\* Largest video duration, in seconds, the environment reports.
MaxDuration == 1

\* Largest number of segments in a provider result.
MaxSegments == 2

\* A loop whose promise was rejected is followed further only when at most
\* this many seeks remain in it; otherwise the element is taken as stopped.
MaxStaleSeeks == 2

\* Largest number of invocations of the export operations followed.
MaxExports == 6

\* Largest videoHeight the environment reports.
MaxNativeHeight == 1100

-----------------------------------------------------------------------------
(* Values *)

\* null is the empty tuple, a present value v the one-element tuple <<v>>.
None == <<>>

Some(v) == <<v>>

maxFrames == 250

targetHeight == 448

DecodeErrorMessage == "Failed to process video file. Ensure it is a valid MP4/MOV/WebM."

DefaultErrorMessage == "An unexpected error occurred."

MemoryOverflowMessage == "Memory overflow. The video analysis hit a technical limit. Try a shorter file."

InitialLoadingMessage == [kind |-> "text", text |-> "Initializing analysis..."]

\* The template string of App.tsx:62.
ScanningMessage(duration) ==
    [kind |-> "scanning", minutes |-> duration \div 60,
     seconds |-> duration % 60, anchors |-> maxFrames]

\* Messages of the rejections of fetch(url) (a network failure).
FetchErrorMessages == {"Failed to fetch"}

\* Messages of the rejections of response.blob() (the body cannot be read).
BlobErrorMessages == {"network error"}

\* Messages of the failures of the external provider; "" stands for an error
\* thrown without a message.
ProviderErrorMessages ==
    {"allocation failed", "Invalid string length", "out of memory",
     "Invalid array length", "Out of Memory", "quota exceeded", ""}

Durations == 0..MaxDuration

\* The fields of a VideoSegment that App.tsx reads, as the provider's text.
Segment(k) ==
    [startTime |-> "00:0" \o ToString(k - 1), endTime |-> "00:0" \o ToString(k),
     generatedPrompt |-> "prompt " \o ToString(k),
     transitionBridge |-> "bridge " \o ToString(k)]

AnalysisResult(n) == [segments |-> [k \in 1..n |-> Segment(k)]]

\* What analyzeVideo resolves with: an AnalysisResult.
Results == {AnalysisResult(n) : n \in 0..MaxSegments}

-----------------------------------------------------------------------------
(* String.prototype.includes *)

Includes(s, sub) ==
    \E k \in 1..(Len(s) + 1) :
        /\ k + Len(sub) - 1 <= Len(s)
        /\ SubSeq(s, k, k + Len(sub) - 1) = sub

\* The catch block's message (App.tsx:112-115); message "" is the falsy
\* err.message.

\* Mutant: the catch block looks for "string length" and "memory" only.
ErrorMessageOfWithoutAllocation(message) ==
    LET errorMessage == IF message = "" THEN DefaultErrorMessage ELSE message
    IN  IF \/ Includes(errorMessage, "string length")
           \/ Includes(errorMessage, "memory")
        THEN MemoryOverflowMessage
        ELSE errorMessage

ErrorMessageOf(message) ==
    LET errorMessage == IF message = "" THEN DefaultErrorMessage ELSE message
    IN  IF \/ Includes(errorMessage, "string length")
           \/ Includes(errorMessage, "memory")
           \/ Includes(errorMessage, "allocation")
        THEN MemoryOverflowMessage
        ELSE errorMessage

-----------------------------------------------------------------------------
(* The setState updaters *)

InitialState == [status |-> "idle", progress |-> 0, result |-> None, error |-> None]

SetUploading(prev) == [prev EXCEPT !.status = "uploading", !.error = None]

\* Mutant: the sampler is invoked without the status being moved first.
SetAnalyzingDropped(prev) == prev

SetAnalyzing(prev) == [prev EXCEPT !.status = "analyzing"]

SetCompleted(prev, result) == [prev EXCEPT !.status = "completed", !.result = Some(result)]


\* Mutant: the catch block moves to error without storing the message.
SetErrorWithoutMessage(prev, errorMessage) == [prev EXCEPT !.status = "error"]

SetError(prev, errorMessage) == [prev EXCEPT !.status = "error", !.error = Some(errorMessage)]


\* Mutant: the reset handler spreads the previous state and so keeps result.
ResetKeepingResult == [state EXCEPT !.status = "idle", !.progress = 0, !.error = None]

\* Mutant: the reset handler spreads the previous state and so keeps error.
ResetKeepingError == [state EXCEPT !.status = "idle", !.progress = 0, !.result = None]

ResetState == [status |-> "idle", progress |-> 0, result |-> None, error |-> None]

-----------------------------------------------------------------------------
(* What the render shows *)

\* VideoUploader is rendered, and with it the only caller of
\* handleVideoSelection, only while status is idle.

\* Mutant: the uploader is rendered in every status.
SubmitAlwaysEnabled == TRUE

SubmitEnabled == state.status = "idle"

\* The header buttons are rendered when state.result is truthy.
HeaderResetEnabled == state.result # None

\* The Restart Session button is rendered when status is error.
RestartEnabled == state.status = "error"

\* The phrases of the interval callback (App.tsx:21-29).
messages ==
    <<"Encoding video buffer...",
      "Tracking emotional continuity...",
      "Mapping visual bridges between segments...",
      "Constructing character appearance memory...",
      "Generating consistent AI prompt chains...",
      "Scanning full timeline (up to 20m)...",
      "Finalizing narrative flow...">>

\* The effect on [state.status] (App.tsx:19-37), run with the render that
\* follows a change of status: the cleanup of the effect before clears the
\* interval it made, and entering analyzing makes a new one with i = 0.
\* Mutant: the effect returns no cleanup; the interval is never cleared.
UseEffectWithoutCleanup(prev, next, ts) ==
    IF prev = next
    THEN ts
    ELSE IF next = "analyzing" THEN Append(ts, 0) ELSE ts

UseEffect(prev, next, ts) ==
    IF prev = next
    THEN ts
    ELSE LET cleaned == IF prev = "analyzing" /\ ts # <<>>
                        THEN SubSeq(ts, 1, Len(ts) - 1)
                        ELSE ts
         IN  IF next = "analyzing" THEN Append(cleaned, 0) ELSE cleaned

\* The render after a handler: the effect runs; nothing else is touched.
Rendered ==
    /\ timers' = UseEffect(state.status, state'.status, timers)
    /\ UNCHANGED aside

-----------------------------------------------------------------------------
(* The sampler *)

NoVideo ==
    [phase |-> "none", promise |-> "none", url |-> "none", duration |-> 0,
     ctx |-> FALSE, i |-> 0, currentTime |-> 0, pendingSeeks |-> 0, frames |-> <<>>]

\* extractFramesFromVideo up to the point where it returns its promise:
\* the element is created and bound to a fresh object URL.
NewVideo ==
    [phase |-> "loading", promise |-> "pending", url |-> "live", duration |-> 0,
     ctx |-> FALSE, i |-> 0, currentTime |-> 0, pendingSeeks |-> 0, frames |-> <<>>]

\* One pushed part: the frame the element shows at its current position.
\* Times are counted in units of 1/maxFrames second, so that i * interval is
\* the integer i * duration.
Frame(v) == [data |-> v.currentTime, mimeType |-> "image/jpeg"]

\* Mutant: the seek is made to the time of the sample after.
IssueSeekOneAhead(v, index) ==
    [v EXCEPT !.i = index, !.currentTime = (index + 1) * v.duration,
              !.pendingSeeks = v.pendingSeeks + 1]

\* video.currentTime = time: a seek is requested.
IssueSeek(v, index) ==
    [v EXCEPT !.i = index, !.currentTime = index * v.duration,
              !.pendingSeeks = v.pendingSeeks + 1]

\* onloadedmetadata up to its first await.
OnLoadedMetadata(v, duration, ctx) ==
    LET w == [v EXCEPT !.duration = duration, !.ctx = ctx]
    IN  IF 0 < maxFrames
        THEN IssueSeek([w EXCEPT !.phase = "seeking"], 0)
        ELSE [w EXCEPT !.phase = "finished", !.url = "revoked",
                       !.promise = IF v.promise = "pending" THEN "resolved" ELSE v.promise]

\* Mutant: the end of the loop settles the promise whatever its state, as a
\* completion callback would.
OnSeekedSettlingAgain(v, renderOk) ==
    LET done == [v EXCEPT !.pendingSeeks = v.pendingSeeks - 1]
    IN  IF v.ctx /\ ~renderOk
        THEN [done EXCEPT !.phase = "threw"]
        ELSE LET pushed == IF v.ctx
                           THEN [done EXCEPT !.frames = Append(v.frames, Frame(v))]
                           ELSE done
             IN  IF v.i + 1 < maxFrames
                 THEN IssueSeek(pushed, v.i + 1)
                 ELSE [pushed EXCEPT !.i = v.i + 1, !.phase = "finished",
                                     !.url = "revoked", !.promise = "resolved"]

\* The loop body after the awaited seeked event, up to the next await or to
\* the end of the loop.  renderOk: drawImage and toDataURL do not throw.
OnSeeked(v, renderOk) ==
    LET done == [v EXCEPT !.pendingSeeks = v.pendingSeeks - 1]
    IN  IF v.ctx /\ ~renderOk
        THEN [done EXCEPT !.phase = "threw"]
        ELSE LET pushed == IF v.ctx
                           THEN [done EXCEPT !.frames = Append(v.frames, Frame(v))]
                           ELSE done
             IN  IF v.i + 1 < maxFrames
                 THEN IssueSeek(pushed, v.i + 1)
                 ELSE [pushed EXCEPT !.i = v.i + 1, !.phase = "finished",
                                     !.url = "revoked",
                                     !.promise = IF v.promise = "pending"
                                                 THEN "resolved" ELSE v.promise]

\* onerror: reject(new Error(...)).  A fatal error stops the element; after
\* any other the element goes on serving the seeks of the loop.
OnError(v, fatal) ==
    [v EXCEPT !.promise = IF v.promise = "pending" THEN "rejected" ELSE v.promise,
              !.phase = IF v.phase = "loading" THEN "failed"
                        ELSE IF fatal THEN "halted" ELSE v.phase]

-----------------------------------------------------------------------------
(* handleVideoSelection *)

NoRun ==
    [pc |-> "none", file |-> FALSE, response |-> "none", parts |-> <<>>,
     totalDuration |-> 0, err |-> None]

\* The catch block: the run settles in error.
Catch(origin, message) ==
    /\ state' = SetError(state, ErrorMessageOf(message))
    /\ run' = [run EXCEPT !.pc = "settled",
                          !.err = Some([origin |-> origin, message |-> message])]
    /\ pendingRuns' = pendingRuns - 1

\* The continuation after `await extractFramesFromVideo(...)` resolves:
\* parts and totalDuration are taken and analyzeVideo is called.
ExtractResolved(v) ==
    /\ state' = SetAnalyzing(state)
    /\ run' = [run EXCEPT !.pc = "analyze", !.parts = v.frames,
                          !.totalDuration = v.duration]
    /\ calls' = [calls EXCEPT !.provider = calls.provider + 1]
    /\ pendingRuns' = pendingRuns

\* A loop of the run before, still served by its element, is kept.
Retire == IF video.phase = "seeking" THEN Some(video) ELSE stale

SubmitFile ==
    /\ SubmitEnabled
    /\ state' = SetAnalyzing(SetUploading(state))
    /\ run' = [NoRun EXCEPT !.pc = "extract", !.file = TRUE]
    /\ stale' = Retire
    /\ video' = NewVideo
    /\ calls' = [sampler |-> 1, provider |-> 0]
    /\ pendingRuns' = pendingRuns + 1
    /\ UNCHANGED loadingMessage
    /\ Rendered

SubmitUrl ==
    /\ SubmitEnabled
    /\ state' = SetUploading(state)
    /\ run' = [NoRun EXCEPT !.pc = "fetch"]
    /\ stale' = Retire
    /\ video' = NoVideo
    /\ calls' = [sampler |-> 0, provider |-> 0]
    /\ pendingRuns' = pendingRuns + 1
    /\ UNCHANGED loadingMessage
    /\ Rendered

FetchResolved ==
    /\ run.pc = "fetch"
    /\ \E ok \in BOOLEAN :
        run' = [run EXCEPT !.pc = "blob",
                           !.response = IF ok THEN "ok" ELSE "http_error"]
    /\ UNCHANGED <<state, loadingMessage, video, stale, calls, pendingRuns>>
    /\ Rendered

FetchRejected ==
    /\ run.pc = "fetch"
    /\ \E message \in FetchErrorMessages : Catch("fetch", message)
    /\ UNCHANGED <<loadingMessage, video, stale, calls>>
    /\ Rendered

BlobResolved ==
    /\ run.pc = "blob"
    /\ state' = SetAnalyzing(state)
    /\ run' = [run EXCEPT !.pc = "extract"]
    /\ video' = NewVideo
    /\ calls' = [calls EXCEPT !.sampler = calls.sampler + 1]
    /\ UNCHANGED <<loadingMessage, stale, pendingRuns>>
    /\ Rendered

BlobRejected ==
    /\ run.pc = "blob"
    /\ \E message \in BlobErrorMessages : Catch("fetch", message)
    /\ UNCHANGED <<loadingMessage, video, stale, calls>>
    /\ Rendered

LoadedMetadata ==
    /\ video.phase = "loading"
    /\ \E duration \in Durations, ctx \in BOOLEAN :
        /\ video' = OnLoadedMetadata(video, duration, ctx)
        /\ loadingMessage' = ScanningMessage(duration)
    /\ IF video'.promise = "resolved" /\ video.promise = "pending"
       THEN ExtractResolved(video')
       ELSE UNCHANGED <<state, run, calls, pendingRuns>>
    /\ UNCHANGED stale
    /\ Rendered

Seeked ==
    /\ video.phase = "seeking"
    /\ video.pendingSeeks > 0
    /\ \E renderOk \in (IF video.ctx THEN BOOLEAN ELSE {TRUE}) :
        video' = OnSeeked(video, renderOk)
    /\ IF video'.promise = "resolved" /\ video.promise # "resolved"
       THEN ExtractResolved(video')
       ELSE UNCHANGED <<state, run, calls, pendingRuns>>
    /\ UNCHANGED <<loadingMessage, stale>>
    /\ Rendered

\* The same handler on the element of an earlier run.
StaleSeeked ==
    /\ stale # None
    /\ \E renderOk \in (IF stale[1].ctx THEN BOOLEAN ELSE {TRUE}) :
        LET w == OnSeeked(stale[1], renderOk)
        IN  stale' = IF w.phase = "seeking" THEN Some(w) ELSE None
    /\ UNCHANGED <<state, loadingMessage, run, video, calls, pendingRuns>>
    /\ Rendered

\* The element cannot load the source: onerror before any metadata.
VideoLoadError ==
    /\ video.phase = "loading"
    /\ video' = OnError(video, TRUE)
    /\ Catch("decode", DecodeErrorMessage)
    /\ UNCHANGED <<loadingMessage, stale, calls>>
    /\ Rendered

\* onerror while the loop is suspended on a seek.
VideoSeekError ==
    /\ video.phase = "seeking"
    /\ video.promise = "pending"
    /\ \E fatal \in BOOLEAN :
        /\ fatal \/ (stale = None /\ maxFrames - video.i <= MaxStaleSeeks)
        /\ video' = OnError(video, fatal)
    /\ Catch("decode", DecodeErrorMessage)
    /\ UNCHANGED <<loadingMessage, stale, calls>>
    /\ Rendered

ProviderResolved ==
    /\ run.pc = "analyze"
    /\ \E result \in Results : state' = SetCompleted(state, result)
    /\ run' = [run EXCEPT !.pc = "settled"]
    /\ pendingRuns' = pendingRuns - 1
    /\ UNCHANGED <<loadingMessage, video, stale, calls>>
    /\ Rendered

ProviderRejected ==
    /\ run.pc = "analyze"
    /\ \E message \in ProviderErrorMessages : Catch("provider", message)
    /\ UNCHANGED <<loadingMessage, video, stale, calls>>
    /\ Rendered

ResetHeader ==
    /\ HeaderResetEnabled
    /\ state' = ResetState
    /\ UNCHANGED <<loadingMessage, run, video, stale, calls, pendingRuns>>
    /\ Rendered

ResetRestart ==
    /\ RestartEnabled
    /\ state' = ResetState
    /\ UNCHANGED <<loadingMessage, run, video, stale, calls, pendingRuns>>
    /\ Rendered

-----------------------------------------------------------------------------
(* The size of the offscreen canvas (App.tsx:56-60) *)

(***************************************************************************)
(* scale = Math.min(1, targetHeight / videoHeight) is an IEEE-754 double,  *)
(* and canvas.width and canvas.height are unsigned long attributes: the    *)
(* double products videoWidth * scale and videoHeight * scale are          *)
(* truncated when assigned.  The operators below compute these truncated   *)
(* products exactly, in integers.  For videoHeight h > targetHeight, with  *)
(* targetHeight * 2^j < h <= targetHeight * 2^(j+1), the quotient          *)
(* targetHeight / h is the 53-bit significand m = round(targetHeight *     *)
(* 2^(53+j) / h) (ties to even) over 2^(53+j).  When m was rounded down,   *)
(* h * m falls short of targetHeight * 2^(53+j) by the remainder r, and a  *)
(* product whose exact value is an integer X is rounded to the double      *)
(* below X, and truncated to X - 1, exactly when the shortfall exceeds     *)
(* half a unit in the last place of the doubles below X.                   *)
(***************************************************************************)

RECURSIVE Pow2(_)
Pow2(n) == IF n = 0 THEN 1 ELSE 2 * Pow2(n - 1)

\* The j with targetHeight * 2^j < h <= targetHeight * 2^(j+1).
RECURSIVE ScaleExponent(_, _)
ScaleExponent(h, j) ==
    IF h <= targetHeight * Pow2(j + 1) THEN j ELSE ScaleExponent(h, j + 1)

\* b^e modulo m, by repeated squaring.
RECURSIVE PowMod(_, _, _)
PowMod(b, e, m) ==
    IF e = 0
    THEN 1 % m
    ELSE LET half == PowMod(b, e \div 2, m)
             square == (half * half) % m
         IN  IF e % 2 = 1 THEN (square * b) % m ELSE square

\* The division of targetHeight * 2^k by h: the remainder, and the lowest
\* bit of the quotient (the quotient is odd when the dividend modulo 2h is
\* at least h).
Division(h, k) ==
    LET residue == ((targetHeight % (2 * h)) * PowMod(2, k, 2 * h)) % (2 * h)
    IN  [rem |-> residue % h, bit |-> IF residue >= h THEN 1 ELSE 0]

\* How far h * m falls short of targetHeight * 2^(53+j): the remainder when
\* the quotient was rounded down (ties to even), else 0.
Shortfall(h) ==
    LET d == Division(h, 53 + ScaleExponent(h, 0))
    IN  IF 2 * d.rem < h \/ (2 * d.rem = h /\ d.bit = 0) THEN d.rem ELSE 0

\* The E with 2^E < x <= 2^(E+1), for x >= 1.
RECURSIVE ExponentBelow(_, _)
ExponentBelow(x, E) == IF x <= Pow2(E + 1) THEN E ELSE ExponentBelow(x, E + 1)

\* The truncated double product n * scale, for a video of height h.
Scaled(n, h) ==
    IF h <= targetHeight
    THEN n
    ELSE IF (targetHeight * n) % h # 0 \/ n = 0
         THEN (targetHeight * n) \div h
         ELSE LET X == (targetHeight * n) \div h
                  j == ScaleExponent(h, 0)
              IN  IF n * Shortfall(h) > h * Pow2(j + ExponentBelow(X, 0))
                  THEN X - 1
                  ELSE X

\* canvas.width and canvas.height after App.tsx:58-60.
CanvasSize(size) ==
    [width |-> Scaled(size.videoWidth, size.videoHeight),
     height |-> Scaled(size.videoHeight, size.videoHeight)]

SizeCanvas ==
    /\ native # None
    /\ canvas = None
    /\ canvas' = Some(CanvasSize(native[1]))
    /\ UNCHANGED <<state, loadingMessage, run, video, stale, calls, pendingRuns,
                   timers, clipboard, alerts, downloads, exports, native>>

-----------------------------------------------------------------------------
(* The export operations *)

\* The template literal of copyAllPrompts for the segment at index i.
Block(s, i) ==
    "[Segment " \o ToString(i + 1) \o "] " \o s.startTime \o "-" \o s.endTime
    \o "\nPROMPT: " \o s.generatedPrompt \o "\nBRIDGE: " \o s.transitionBridge

\* Array.prototype.join
RECURSIVE Join(_, _)
Join(items, separator) ==
    IF items = <<>> THEN ""
    ELSE IF Len(items) = 1 THEN items[1]
    ELSE items[1] \o separator \o Join(Tail(items), separator)

\* Mutant: the blocks are numbered with the index i, from 0.
ClipboardTextFromZero(result) ==
    Join([k \in 1..Len(result.segments) |-> Block(result.segments[k], k - 2)], "\n\n")

\* segments.map(...).join('\n\n')
ClipboardText(result) ==
    Join([k \in 1..Len(result.segments) |-> Block(result.segments[k], k - 1)], "\n\n")

\* Mutant: copyAllPrompts without its guard, an absent result read as one
\* without segments.
CopyEffectsUnguarded(s) ==
    [clipboard |-> Some(ClipboardText(IF s.result = None THEN AnalysisResult(0)
                                      ELSE s.result[1])),
     alerts |-> alerts + 1]

\* copyAllPrompts: what it leaves in the clipboard and on the screen.
CopyEffects(s) ==
    IF s.result = None
    THEN [clipboard |-> clipboard, alerts |-> alerts]
    ELSE [clipboard |-> Some(ClipboardText(s.result[1])), alerts |-> alerts + 1]

\* downloadJson: the files offered for download after it.
DownloadEffects(s) ==
    IF s.result = None
    THEN downloads
    ELSE Append(downloads, [download |-> "storyboard_continuity_export.json",
                            type |-> "application/json",
                            json |-> s.result[1], indent |-> 2])

CopyAllPrompts ==
    /\ exports < MaxExports
    /\ exports' = exports + 1
    /\ clipboard' = CopyEffects(state).clipboard
    /\ alerts' = CopyEffects(state).alerts
    /\ UNCHANGED <<state, loadingMessage, run, video, stale, calls, pendingRuns,
                   timers, downloads, native, canvas>>

DownloadJson ==
    /\ exports < MaxExports
    /\ exports' = exports + 1
    /\ downloads' = DownloadEffects(state)
    /\ UNCHANGED <<state, loadingMessage, run, video, stale, calls, pendingRuns,
                   timers, clipboard, alerts, native, canvas>>

-----------------------------------------------------------------------------
(* The interval of the effect *)

\* The callback of setInterval (App.tsx:31-34) of the k-th live interval:
\* setLoadingMessage(messages[i % messages.length]); i++.  The counter is
\* kept modulo messages.length, the only way it is read.  The render that
\* follows leaves state.status as it was, so the effect does not run.
TimerTick ==
    /\ \E k \in 1..Len(timers) :
        /\ loadingMessage' = [kind |-> "text",
                              text |-> messages[(timers[k] % Len(messages)) + 1]]
        /\ timers' = [timers EXCEPT ![k] = (timers[k] + 1) % Len(messages)]
    /\ UNCHANGED <<state, run, video, stale, calls, pendingRuns>>
    /\ UNCHANGED aside

-----------------------------------------------------------------------------

Init ==
    /\ state = InitialState
    /\ loadingMessage = InitialLoadingMessage
    /\ run = NoRun
    /\ video = NoVideo
    /\ stale = None
    /\ calls = [sampler |-> 0, provider |-> 0]
    /\ pendingRuns = 0
    /\ timers = <<>>
    /\ clipboard = None
    /\ alerts = 0
    /\ downloads = <<>>
    /\ exports = 0
    /\ native = None
    /\ canvas = None

Next ==
    \/ SubmitFile
    \/ SubmitUrl
    \/ FetchResolved
    \/ FetchRejected
    \/ BlobResolved
    \/ BlobRejected
    \/ LoadedMetadata
    \/ Seeked
    \/ StaleSeeked
    \/ VideoLoadError
    \/ VideoSeekError
    \/ ProviderResolved
    \/ ProviderRejected
    \/ ResetHeader
    \/ ResetRestart

Spec == Init /\ [][Next]_vars

\* Every awaited external step (fetch, body read, metadata load, seek,
\* provider call) eventually succeeds or fails.
Fairness ==
    /\ WF_vars(FetchResolved \/ FetchRejected)
    /\ WF_vars(BlobResolved \/ BlobRejected)
    /\ WF_vars(LoadedMetadata \/ VideoLoadError)
    /\ WF_vars(Seeked)
    /\ WF_vars(ProviderResolved \/ ProviderRejected)

FairSpec == Spec /\ Fairness

\* The runs with the interval ticking at any moment.  An error of the
\* element while the loop is suspended is a fatal one here, so that no loop
\* of an earlier run is left behind.
TimerNext ==
    \/ SubmitFile
    \/ SubmitUrl
    \/ FetchResolved
    \/ FetchRejected
    \/ BlobResolved
    \/ BlobRejected
    \/ LoadedMetadata
    \/ Seeked
    \/ VideoLoadError
    \/ VideoSeekError /\ video'.phase = "halted"
    \/ ProviderResolved
    \/ ProviderRejected
    \/ ResetHeader
    \/ ResetRestart
    \/ TimerTick

TimerSpec == Init /\ [][TimerNext]_vars

-----------------------------------------------------------------------------
(* The claims *)

InFlight == state.status \in {"uploading", "analyzing"}

Terminal == state.status \in {"completed", "error"}

\* C1: once a submit has left idle, and every awaited external step settles,
\* the status eventually becomes completed or error; it never stays in
\* uploading or analyzing forever, whichever step fails.
C1_SubmitEventuallySettles == [](InFlight => <>Terminal)

\* C2: after a fetch that returned a non-success response the status never
\* enters analyzing, the sampler is not invoked, and the error stored is the
\* fetch failure.
C2_HttpErrorEndsInFetchError ==
    run.response = "http_error" =>
        /\ state.status # "analyzing"
        /\ calls.sampler = 0
        /\ state.status = "error" => (run.err # None /\ run.err[1].origin = "fetch")

\* C3: when the sampler has resolved for a video of duration > 0, the batch
\* it returned, and that handleVideoSelection took, holds exactly maxFrames
\* frames.
C3_BatchIsComplete ==
    (video.promise = "resolved" /\ video.duration > 0) =>
        /\ Len(video.frames) = maxFrames
        /\ Len(run.parts) = maxFrames

\* C4: whenever the sampler's promise has settled, resolved or rejected, the
\* object URL of its element has been revoked.
C4_UrlRevokedOnEveryExit ==
    video.promise \in {"resolved", "rejected"} => video.url = "revoked"

\* C5: at most one seek is in flight, and while the seek for sample i is in
\* flight the seeks for all samples before i have completed and their frames
\* have been captured.
C5_SeeksSequentialAfterCapture ==
    video.phase = "seeking" =>
        /\ video.pendingSeeks <= 1
        /\ video.i < maxFrames
        /\ Len(video.frames) = video.i

\* C6: at most one handleVideoSelection run is pending; a run is pending
\* exactly while status is uploading or analyzing, and then no submit can
\* start.
C6_SingleRunInFlight ==
    /\ pendingRuns <= 1
    /\ pendingRuns = 1 <=> InFlight
    /\ InFlight => ~SubmitEnabled

C6_Witness == pendingRuns = 1 /\ stale # None /\ run.pc = "analyze" /\ ~SubmitEnabled

\* C7: whenever a reset control is rendered (the header button or the
\* Restart Session button) the status is completed or error.
C7_ResetOnlyWhenTerminal == (HeaderResetEnabled \/ RestartEnabled) => Terminal

C7_Witness == HeaderResetEnabled /\ state.status = "completed" /\ pendingRuns = 0

ExhaustionWording(message) ==
    \E word \in {"length", "memory", "allocation"} : Includes(message, word)

\* C8 as stated: a failure whose message has length, memory or allocation
\* wording is stored as the memory-overflow message, any other failure with a
\* non-empty message verbatim.
C8_ExhaustionWordingIsStandardized ==
    (state.status = "error" /\ run.err # None) =>
        LET message == run.err[1].message
        IN  /\ ExhaustionWording(message) => state.error = Some(MemoryOverflowMessage)
            /\ (~ExhaustionWording(message) /\ message # "") => state.error = Some(message)

ExhaustionMarker(message) ==
    \E marker \in {"string length", "memory", "allocation"} : Includes(message, marker)

\* C8 amended: a failure whose message contains "string length", "memory" or
\* "allocation" (as written, case-sensitive) is stored as the memory-overflow
\* message, any other failure with a non-empty message verbatim.
C8_ExhaustionMarkerIsStandardized ==
    (state.status = "error" /\ run.err # None) =>
        LET message == run.err[1].message
        IN  /\ ExhaustionMarker(message) => state.error = Some(MemoryOverflowMessage)
            /\ (~ExhaustionMarker(message) /\ message # "") => state.error = Some(message)

C8_Witness ==
    /\ state.status = "error"
    /\ run.err = Some([origin |-> "provider", message |-> "allocation failed"])
    /\ state.error = Some(MemoryOverflowMessage)

\* C9: result is present exactly when status is completed, and error is
\* present exactly when status is error.
C9_ResultAndErrorMatchStatus ==
    /\ state.result # None <=> state.status = "completed"
    /\ state.error # None <=> state.status = "error"

C9_Witness ==
    /\ state.status = "error"
    /\ run.err # None
    /\ run.err[1].origin = "provider"
    /\ state.result = None
    /\ state.error # None

\* C10: a step from completed or error back to idle yields exactly
\* {status: idle, progress: 0, result: absent, error: absent}, and the reset
\* applied to that state yields it again.
C10_ResetYieldsInitialState ==
    [][(Terminal /\ state'.status = "idle") =>
           /\ state' = [status |-> "idle", progress |-> 0, result |-> None, error |-> None]
           /\ ResetState' = state']_vars

C10_Witness == state.status = "idle" /\ run.pc = "settled" /\ run.err # None

-----------------------------------------------------------------------------
(* The export operations applied in every shape of AppState *)

\* The AppStates the updaters produce: idle, in flight, completed with each
\* result, error with each stored message.
AppStates ==
    {InitialState, SetUploading(InitialState), SetAnalyzing(SetUploading(InitialState))}
    \cup {SetCompleted(SetAnalyzing(SetUploading(InitialState)), r) : r \in Results}
    \cup {SetError(SetUploading(InitialState), ErrorMessageOf(m)) :
              m \in ProviderErrorMessages \cup {DecodeErrorMessage}}

ExportInit ==
    /\ state \in AppStates
    /\ loadingMessage = InitialLoadingMessage
    /\ run = NoRun
    /\ video = NoVideo
    /\ stale = None
    /\ calls = [sampler |-> 0, provider |-> 0]
    /\ pendingRuns = 0
    /\ timers = UseEffect("idle", state.status, <<>>)
    /\ clipboard = None
    /\ alerts = 0
    /\ downloads = <<>>
    /\ exports = 0
    /\ native = None
    /\ canvas = None

ExportNext == CopyAllPrompts \/ DownloadJson

ExportSpec == ExportInit /\ [][ExportNext]_vars

\* C11: an export operation never changes AppState, and invoked while
\* result is absent it writes no clipboard text, shows no alert and offers
\* no file.
C11_ExportsOnlyReadResult ==
    [][/\ state' = state
       /\ state.result = None => UNCHANGED <<clipboard, alerts, downloads>>]_vars

C11_Witness ==
    /\ state.result = None
    /\ exports > 1
    /\ clipboard = None /\ alerts = 0 /\ downloads = <<>>

\* The block the claim gives for segment k, counted from 1.
ExpectedBlock(segment, k) ==
    "[Segment " \o ToString(k) \o "] " \o segment.startTime \o "-" \o segment.endTime
    \o "\nPROMPT: " \o segment.generatedPrompt \o "\nBRIDGE: " \o segment.transitionBridge

\* The text made of the blocks of segments k..n, one blank line between two.
RECURSIVE ExpectedFrom(_, _)
ExpectedFrom(segments, k) ==
    IF k > Len(segments) THEN ""
    ELSE ExpectedBlock(segments[k], k)
         \o (IF k < Len(segments) THEN "\n\n" ELSE "")
         \o ExpectedFrom(segments, k + 1)

\* The number of places at which sub occurs in s.
Occurrences(s, sub) ==
    Cardinality({k \in 1..Len(s) :
        k + Len(sub) - 1 <= Len(s) /\ SubSeq(s, k, k + Len(sub) - 1) = sub})

\* C12: the text copyAllPrompts writes for a result with n segments is the n
\* blocks "[Segment k] start-end / PROMPT: prompt / BRIDGE: bridge", k from 1
\* in source order, with one blank line between two blocks.
C12_ClipboardTextIsTheBlocks ==
    (clipboard # None /\ state.result # None) =>
        LET segments == state.result[1].segments
            text == clipboard[1]
        IN  /\ text = ExpectedFrom(segments, 1)
            /\ Occurrences(text, "[Segment ") = Len(segments)
            /\ Len(segments) > 0 => Occurrences(text, "\n\n") = Len(segments) - 1

C12_Witness ==
    /\ clipboard # None
    /\ state.result # None
    /\ Len(state.result[1].segments) = 2
    /\ clipboard[1] = "[Segment 1] 00:00-00:01\nPROMPT: prompt 1\nBRIDGE: bridge 1"
                      \o "\n\n"
                      \o "[Segment 2] 00:01-00:02\nPROMPT: prompt 2\nBRIDGE: bridge 2"

\* The frames of a sampler are in sample order: the k-th frame, k from 0, is
\* the one shown after the seek to k * interval (k * duration in units of
\* 1/maxFrames second), and the times along the batch never decrease.
InSampleOrder(v) ==
    /\ \A k \in 1..Len(v.frames) : v.frames[k].data = (k - 1) * v.duration
    /\ \A k \in 1..(Len(v.frames) - 1) : v.frames[k].data <= v.frames[k + 1].data
    /\ Len(v.frames) <= maxFrames

\* C13: frames are appended in sample-index order, each captured after the
\* seek to its own sample time, in the batch in progress, in the batch
\* returned to handleVideoSelection and in a loop of an earlier run.
C13_FramesInSampleOrder ==
    /\ InSampleOrder(video)
    /\ stale # None => InSampleOrder(stale[1])
    /\ \A k \in 1..Len(run.parts) : run.parts[k].data = (k - 1) * run.totalDuration

C13_Witness ==
    /\ video.promise = "resolved"
    /\ video.duration > 0
    /\ Len(run.parts) = maxFrames
    /\ run.parts[maxFrames].data = (maxFrames - 1) * video.duration

-----------------------------------------------------------------------------
(* The canvas sized for every native size *)

\* The widths tried with a video of height h.
NativeWidths(h) == {1, h, (16 * h) \div 9, 640, 1920}

ScaleInit ==
    /\ \E h \in 1..MaxNativeHeight : \E w \in NativeWidths(h) :
           native = Some([videoWidth |-> w, videoHeight |-> h])
    /\ canvas = None
    /\ state = InitialState
    /\ loadingMessage = InitialLoadingMessage
    /\ run = NoRun
    /\ video = NoVideo
    /\ stale = None
    /\ calls = [sampler |-> 0, provider |-> 0]
    /\ pendingRuns = 0
    /\ timers = <<>>
    /\ clipboard = None
    /\ alerts = 0
    /\ downloads = <<>>
    /\ exports = 0

ScaleNext == SizeCanvas

ScaleSpec == ScaleInit /\ [][ScaleNext]_vars

\* C14: the canvas is never upscaled: up to the target height it has the
\* native size; above it its height is the target height and its width is
\* within one pixel of videoWidth * targetHeight / videoHeight.
C14_NeverUpscaledAndTargetHeight ==
    canvas # None =>
        LET w == native[1].videoWidth
            h == native[1].videoHeight
            c == canvas[1]
        IN  /\ h <= targetHeight => (c.width = w /\ c.height = h)
            /\ h > targetHeight =>
                   /\ c.height = targetHeight
                   /\ (c.width - 1) * h <= targetHeight * w
                   /\ targetHeight * w <= (c.width + 1) * h

-----------------------------------------------------------------------------
(* The order of the steps of a run *)

\* extractFramesFromVideo is called in this step.
SamplerInvoked == run'.pc = "extract" /\ run.pc # "extract"

\* C15: the sampler is invoked only with the status moved to analyzing; a
\* run on a URL stays in uploading, the sampler not invoked, while the fetch
\* and the body read are awaited, and invokes the sampler from the step that
\* follows the body read.
C15_SamplerInvokedWhileAnalyzing ==
    [][/\ SamplerInvoked =>
            /\ state'.status = "analyzing"
            /\ video' = NewVideo
            /\ calls'.sampler = 1
            /\ run'.file \/ run.pc = "blob"
       /\ run'.pc \in {"fetch", "blob"} =>
            /\ ~run'.file
            /\ state'.status = "uploading"
            /\ calls'.sampler = 0
            /\ video' = NoVideo
       /\ video'.promise = "pending" => state'.status = "analyzing"]_vars

C15_Witness ==
    /\ ~run.file
    /\ run.response = "ok"
    /\ run.pc = "extract"
    /\ state.status = "analyzing"
    /\ video.phase = "seeking"

\* A failure of the fetch or of the sampler: the fetch or the body read
\* rejected, the response was a non-success one, or the element reported an
\* error.
FetchOrSamplingFailed ==
    \/ run.response = "http_error"
    \/ run.err # None /\ run.err[1].origin \in {"fetch", "decode"}

\* C16: within a run the sampler is invoked at most once and analyzeVideo
\* at most once, analyzeVideo only after the sampler's promise resolved and
\* with the frames and the duration it resolved with; after a failure of
\* the fetch or of the sampler analyzeVideo is not invoked, and no call is
\* made again until the next submit.
C16_OneSamplerOneProviderCall ==
    [][/\ calls'.sampler <= 1
       /\ calls'.provider <= 1
       /\ calls'.provider = 1 =>
            /\ calls'.sampler = 1
            /\ video'.promise = "resolved"
            /\ run'.parts = video'.frames
            /\ run'.totalDuration = video'.duration
       /\ FetchOrSamplingFailed' => calls'.provider = 0
       /\ (run.err # None /\ run'.err # None) =>
            (calls' = calls /\ run' = run)]_vars

-----------------------------------------------------------------------------
(* The status messages *)

\* A callback of a live interval ran in this step.
Ticked == timers # <<>> /\ timers' # <<>> /\ timers' # timers

\* C17: a tick of the interval changes the loading message only, to one of
\* the phrases, and leaves AppState and the run as they were; an interval
\* is live only while the status is analyzing, there is never more than one,
\* and no tick fires with the status other than analyzing.
C17_TimerOnlyRotatesTheMessage ==
    [][/\ timers' # <<>> => (state'.status = "analyzing" /\ Len(timers') = 1)
       /\ Ticked =>
            /\ state.status = "analyzing"
            /\ UNCHANGED <<state, run, video, stale, calls, pendingRuns>>
            /\ \E k \in 1..Len(messages) :
                   loadingMessage' = [kind |-> "text", text |-> messages[k]]
       /\ loadingMessage' # loadingMessage =>
            (Ticked \/ loadingMessage'.kind = "scanning")]_vars

\* The interval has ticked all the phrases through while the loop runs.
C17_Witness ==
    /\ state.status = "analyzing"
    /\ timers = <<0>>
    /\ loadingMessage = [kind |-> "text", text |-> messages[Len(messages)]]
    /\ video.phase = "seeking"
    /\ video.i > 0

-----------------------------------------------------------------------------
(* The outcome of a run is settled once *)

\* The element reports an error while the loop of the run is suspended.
ErrorAfterMetadata ==
    video.phase = "seeking" /\ video.promise = "pending" /\ video'.promise = "rejected"

\* A seek of a loop whose promise was rejected completes: on the element of
\* the run that ended in error, or on the element of a run before.
LaterSeek ==
    \/ /\ video.promise = "rejected"
       /\ video.phase = "seeking"
       /\ video'.phase \in {"seeking", "finished", "threw"}
       /\ video' # video
    \/ stale # None /\ stale' # stale

\* C18: an error of the element after the metadata has loaded ends the run
\* in error; a seek that completes later, the last of the loop included,
\* leaves AppState, the run and the calls made as they are, also when it
\* belongs to a run before a reset and a new submit; a settled run is left
\* only by a new submit from idle.
C18_OutcomeSettledOnce ==
    [][/\ ErrorAfterMetadata =>
            /\ state'.status = "error"
            /\ state'.error = Some(DecodeErrorMessage)
            /\ run'.pc = "settled"
            /\ calls'.provider = 0
       /\ LaterSeek => UNCHANGED <<state, run, calls, pendingRuns>>
       /\ (run.pc = "settled" /\ run' # run) =>
            /\ state.status = "idle"
            /\ run'.pc \in {"extract", "fetch"}
            /\ run'.err = None]_vars

\* The loop of a run that ended in error has run to its end.
C18_Witness ==
    /\ video.promise = "rejected"
    /\ video.phase = "finished"
    /\ video.i = maxFrames
    /\ state.status = "error"
    /\ state.error = Some(DecodeErrorMessage)
    /\ calls.provider = 0

====
